---- MODULE Spec2Model ----
(***************************************************************************)
(* The file-collection store of tabasnote (the App component), in its two  *)
(* source variants:                                                        *)
(*   "useStorage"  src/unnamed/part_000 : promise-style storage provider,  *)
(*                 debounced persistence, selection repair, URL bridge;    *)
(*   "chromeSync"  src/src/App.tsx      : chrome.storage.sync callbacks,   *)
(*                 a write on every change of files.                       *)
(* One behaviour of the model is one page load of one variant.  Every      *)
(* event handler runs to completion on the single thread, so a handler is  *)
(* one action: the state updates it queues are applied in order (the last  *)
(* setFiles / setCurrentFile of a handler wins), then the effects that     *)
(* depend on the changed state run.                                        *)
(***************************************************************************)
EXTENDS Integers, Sequences, FiniteSets, TLC

VARIABLES
    variant,        \* which source variant this page load runs
    pc,             \* position of the mount effects / hydration
    files,          \* useState<File[]>([])
    currentFile,    \* useState<File | null>(null): a stored copy, not a reference
    showArchived,   \* useState(false)
    url,            \* the fileId query parameter of the address bar ("" = none)
    store,          \* the persistence provider: a map from the keys it holds
    result,         \* what the bootstrap reads have returned so far
    debouncedFiles, \* useDebounce(files, STORAGE_DELAY)
    timerPending,   \* the debounce timer is armed
    now,            \* Date.now()
    lastOp,         \* history: the last store operation and its argument
    burst,          \* history: length of the current run of content edits
    burstWrites,    \* history: writes of key "files" since that run began
    ops             \* history: store operations dispatched in this page load

vars == <<variant, pc, files, currentFile, showArchived, url, store, result,
          debouncedFiles, timerPending, now, lastOp, burst, burstWrites, ops>>

----------------------------------------------------------------------------
(* Bounds of the model *)

\* longest collection found in storage at page load
MaxSaved == 2
\* store operations dispatched in one page load
MaxOps == 2
\* clock ticks in one page load
MaxTicks == 1
\* saturation of the burst counter
MaxBurst == 2

----------------------------------------------------------------------------
(* Values *)

VStorage == "useStorage"
VChrome == "chromeSync"

\* currentFile === null
Null == [null |-> TRUE]

\* urlParams.get('fileId') of an address bar without the parameter.  The code
\* reads it only through `if (fileId)`, where null and "" are both falsy.
NoParam == ""

Contents == {"", "a"}

File(id, content, archived) == [id |-> id, content |-> content, archived |-> archived]

Digit == <<"0", "1", "2", "3", "4", "5", "6", "7", "8", "9">>

\* Number.prototype.toString of a non-negative integer
RECURSIVE toString(_)
toString(n) ==
    IF n < 10 THEN Digit[n + 1] ELSE toString(n \div 10) \o Digit[(n % 10) + 1]

\* Array.prototype.find: the element at the least of the matching indices,
\* or Null (undefined) when none matches
Found(fs, hits) ==
    IF hits = {} THEN Null
    ELSE fs[CHOOSE i \in hits : \A j \in hits : i <= j]

\* fs.find(f => f.id === id)
FindById(fs, id) == Found(fs, {i \in 1..Len(fs) : fs[i].id = id})

\* fs.find(f => !f.archived)
FirstNonArchived(fs) == Found(fs, {i \in 1..Len(fs) : ~fs[i].archived})

\* files.map(f => f.id === u.id ? u : f)
ReplaceById(fs, u) == [i \in 1..Len(fs) |-> IF fs[i].id = u.id THEN u ELSE fs[i]]

\* files.filter(f => f.id !== id)
RemoveById(fs, id) == SelectSeq(fs, LAMBDA f : f.id # id)

\* a fresh file that would start out archived
NewFileArchived == File(toString(now), "", TRUE)

\* { id: Date.now().toString(), content: '', archived: false }
NewFile == File(toString(now), "", FALSE)

Ids(fs) == {fs[i].id : i \in 1..Len(fs)}

Entries(fs) == {fs[i] : i \in 1..Len(fs)}

----------------------------------------------------------------------------
(* The persistence provider *)

Has(s, key) == key \in DOMAIN s

Put(s, key, value) ==
    [k \in DOMAIN s \cup {key} |-> IF k = key THEN value ELSE s[k]]

\* the part of map s under the keys ks (what a get of those keys returns)
Get(s, ks) == [k \in DOMAIN s \cap ks |-> s[k]]

\* await storage.get<File[]>('files') || []
SavedFiles(r) == IF Has(r, "files") THEN r["files"] ELSE <<>>

\* await storage.get<boolean>('showArchived') || false
SavedShow(r) == IF Has(r, "showArchived") THEN r["showArchived"] ELSE FALSE

Op(name, arg) == [op |-> name, arg |-> arg]

----------------------------------------------------------------------------
(* Initial states: before the component mounts *)

\* the collections an earlier page load can have stored: ids are earlier
\* clock readings, in creation order
SavedContent(i) == IF i = 1 THEN "a" ELSE ""

SavedCollections ==
    UNION {{[i \in 1..n |-> File(toString(i), SavedContent(i), arch[i])] :
               arch \in [1..n -> BOOLEAN]} : n \in 0..MaxSaved}

InitialStores ==
    {[k \in {} |-> TRUE]}
    \cup {[files |-> c] : c \in SavedCollections}
    \cup {[files |-> c, showArchived |-> TRUE] : c \in SavedCollections}

URLParams == {NoParam} \cup {toString(i) : i \in 1..MaxSaved}

InitClock == MaxSaved + 1

Init ==
    /\ variant \in {VStorage, VChrome}
    /\ pc = "init"
    /\ files = <<>>
    /\ currentFile = Null
    /\ showArchived = FALSE
    /\ url \in URLParams
    /\ store \in InitialStores
    /\ result = [k \in {} |-> TRUE]
    /\ debouncedFiles = <<>>
    /\ timerPending = FALSE
    /\ now = InitClock
    /\ lastOp = Op("none", Null)
    /\ burst = 0
    /\ burstWrites = 0
    /\ ops = 0

----------------------------------------------------------------------------
(* Persistence synchronisation *)

\* a write that never reaches the provider
WriteFilesDropped(s, v) == s

\* storage.set('files', v) / chrome.storage.sync.set({ files })
WriteFiles(s, v) == Put(s, "files", v)

\* saturating increment of a history counter
Bump(n, max) == IF n < max THEN n + 1 ELSE max

\* the persistence effect as if it were keyed on [files] in both variants
PersistsOnChangeAlways == TRUE

\* Whether the persistence effect runs when files changes: it is keyed on
\* [files] in chromeSync and on [debouncedFiles] in useStorage.
PersistsOnChange == variant = VChrome

\* useDebounce(files, STORAGE_DELAY) when files changes: a pending timer is
\* cancelled and a new one armed.  chromeSync has no debounce.
TimerAfterChange == variant = VStorage

\* What follows a handler that called setFiles with a new array, `edit` telling
\* whether the handler was a content edit.
FilesChanged(newFiles, edit) ==
    LET continues == edit /\ timerPending /\ burst >= 1
        before == IF continues THEN burstWrites ELSE 0
    IN  /\ store' = IF PersistsOnChange THEN WriteFiles(store, newFiles) ELSE store
        /\ timerPending' = TimerAfterChange
        /\ UNCHANGED debouncedFiles
        /\ burst' = IF ~edit THEN 0
                    ELSE IF continues THEN Bump(burst, MaxBurst) ELSE 1
        /\ burstWrites' = IF ~edit THEN 0
                          ELSE IF PersistsOnChange THEN Bump(before, 2) ELSE before

\* a handler that did not call setFiles
FilesUntouched == UNCHANGED <<store, debouncedFiles, timerPending, burst, burstWrites>>

\* The debounce timer fires: setDebouncedValue(files), and the effect on
\* [debouncedFiles] writes the settled collection.
TimerFire ==
    /\ timerPending
    /\ timerPending' = FALSE
    /\ debouncedFiles' = files
    /\ store' = WriteFiles(store, files)
    /\ burstWrites' = IF burst >= 1 THEN Bump(burstWrites, 2) ELSE 0
    /\ UNCHANGED <<variant, pc, files, currentFile, showArchived, url, result,
                   now, lastOp, burst, ops>>

----------------------------------------------------------------------------
(* Mount and hydration *)

\* The mount effects, in source order: the bootstrap read is issued, then the
\* persistence effect runs with the initial (empty) collection.  The provider
\* serves requests in the order issued, so the read returns what was stored
\* before this page load.
Mount ==
    /\ pc = "init"
    /\ IF variant = VChrome
       THEN /\ result' = Get(store, {"files", "showArchived"})
            /\ store' = WriteFiles(store, files)
            /\ pc' = "awaitGet"
       ELSE /\ result' = Get(store, {"files"})
            /\ store' = WriteFiles(store, debouncedFiles)
            /\ pc' = "awaitFiles"
    /\ lastOp' = Op("mount", Null)
    /\ UNCHANGED <<variant, files, currentFile, showArchived, url,
                   debouncedFiles, timerPending, now, burst, burstWrites, ops>>

\* useStorage: the first await resumes and the second read is issued
FilesRead ==
    /\ pc = "awaitFiles"
    /\ result' = [k \in DOMAIN result \cup (DOMAIN store \cap {"showArchived"}) |->
                     IF k = "showArchived" THEN store[k] ELSE result[k]]
    /\ pc' = "awaitShow"
    /\ UNCHANGED <<variant, files, currentFile, showArchived, url, store,
                   debouncedFiles, timerPending, now, lastOp, burst, burstWrites, ops>>

\* a selection that would un-archive the deep-linked file, as openFile does
InitialSelectionReviving(savedFiles, fileId, newFile) ==
    IF fileId # ""
    THEN IF FindById(savedFiles, fileId) # Null
         THEN [FindById(savedFiles, fileId) EXCEPT !.archived = FALSE]
         ELSE Null
    ELSE IF Len(savedFiles) = 0
    THEN newFile
    ELSE IF FirstNonArchived(savedFiles) # Null
    THEN FirstNonArchived(savedFiles)
    ELSE savedFiles[1]

\* the file loadInitialData makes current, given the loaded collection and the
\* fileId parameter; Null when it calls no setCurrentFileWithUrl
InitialSelection(savedFiles, fileId, newFile) ==
    IF fileId # ""
    THEN FindById(savedFiles, fileId)
    ELSE IF Len(savedFiles) = 0
    THEN newFile
    ELSE IF FirstNonArchived(savedFiles) # Null
    THEN FirstNonArchived(savedFiles)
    ELSE savedFiles[1]

\* a loadInitialData that would keep only the active files of the loaded
\* collection
InitialFilesActiveOnly(savedFiles, fileId, newFile) ==
    IF fileId = "" /\ Len(savedFiles) = 0 THEN <<newFile>>
    ELSE SelectSeq(savedFiles, LAMBDA f : ~f.archived)

\* the collection loadInitialData leaves in files
InitialFiles(savedFiles, fileId, newFile) ==
    IF fileId = "" /\ Len(savedFiles) = 0 THEN <<newFile>> ELSE savedFiles

\* useStorage: the second await resumes and loadInitialData runs to its end
HydrateStorage ==
    /\ variant = VStorage
    /\ pc = "awaitShow"
    /\ LET savedFiles == SavedFiles(result)
           sel == InitialSelection(savedFiles, url, NewFile)
       IN  /\ files' = InitialFiles(savedFiles, url, NewFile)
           /\ showArchived' = SavedShow(result)
           /\ currentFile' = IF sel # Null THEN sel ELSE currentFile
           /\ url' = IF sel # Null THEN sel.id ELSE url
           /\ FilesChanged(InitialFiles(savedFiles, url, NewFile), FALSE)
    /\ pc' = "hydrated"
    /\ lastOp' = Op("hydrate", [fileId |-> url])
    /\ UNCHANGED <<variant, result, now, ops>>

\* chromeSync: the callback of chrome.storage.sync.get
HydrateChrome ==
    /\ variant = VChrome
    /\ pc = "awaitGet"
    /\ IF Has(result, "files")
       THEN LET file == IF url # "" THEN FindById(result["files"], url) ELSE Null
            IN  /\ files' = result["files"]
                /\ currentFile' = IF file # Null THEN file ELSE currentFile
                /\ FilesChanged(result["files"], FALSE)
       ELSE /\ UNCHANGED <<files, currentFile>>
            /\ FilesUntouched
    /\ showArchived' = IF Has(result, "showArchived") THEN result["showArchived"]
                       ELSE showArchived
    /\ pc' = "hydrated"
    /\ lastOp' = Op("hydrate", [fileId |-> url])
    /\ UNCHANGED <<variant, url, result, now, ops>>

\* a read of the provider fails: the awaited get rejects, or the callback gets
\* no result; neither variant catches it, so the rest of the hydration code
\* does not run and no state is set
ReadFails ==
    /\ pc \in {"awaitFiles", "awaitShow", "awaitGet"}
    /\ pc' = "failed"
    /\ lastOp' = Op("readFailed", [fileId |-> url])
    /\ UNCHANGED <<variant, files, currentFile, showArchived, url, store, result,
                   debouncedFiles, timerPending, now, burst, burstWrites, ops>>

----------------------------------------------------------------------------
(* The store's operations.  A handler closes over the files and currentFile *)
(* of the latest render; its file argument is an entry of that render's     *)
(* files.                                                                   *)

Interactive == pc # "init" /\ ops < MaxOps

Dispatched == ops' = ops + 1

\* setCurrentFileWithUrl(file) for a non-null file: the value pushState leaves
\* in the fileId parameter
PushedUrl(file) == file.id

\* createNewFile: only the useStorage variant records the selection in the URL
UrlAfterCreate(newFile) == IF variant = VStorage THEN PushedUrl(newFile) ELSE url

createNewFile ==
    /\ Interactive
    /\ files' = Append(files, NewFile)
    /\ currentFile' = NewFile
    /\ url' = UrlAfterCreate(NewFile)
    /\ FilesChanged(Append(files, NewFile), FALSE)
    /\ Dispatched
    /\ lastOp' = Op("createNewFile", NewFile)
    /\ UNCHANGED <<variant, pc, showArchived, result, now>>

\* { ...currentFile, content }
WithContent(file, content) == [file EXCEPT !.content = content]

updateCurrentFile(content) ==
    /\ Interactive
    /\ IF currentFile # Null
       THEN LET updatedFile == WithContent(currentFile, content)
            IN  /\ currentFile' = updatedFile
                /\ files' = ReplaceById(files, updatedFile)
                /\ FilesChanged(ReplaceById(files, updatedFile), TRUE)
       ELSE /\ UNCHANGED <<files, currentFile>>
            /\ FilesUntouched
    /\ Dispatched
    /\ lastOp' = Op("updateCurrentFile", [content |-> content])
    /\ UNCHANGED <<variant, pc, showArchived, url, result, now>>

\* { ...file, archived: !file.archived }
Toggled(file) == [file EXCEPT !.archived = ~file.archived]

\* the state updates toggleArchive(file) queues
FilesAfterToggle(fs, file) == ReplaceById(fs, Toggled(file))

CurrentAfterToggle(cur, file) ==
    IF cur # Null /\ cur.id = file.id THEN Toggled(file) ELSE cur

toggleArchive(file) ==
    /\ Interactive
    /\ files' = FilesAfterToggle(files, file)
    /\ currentFile' = CurrentAfterToggle(currentFile, file)
    /\ FilesChanged(FilesAfterToggle(files, file), FALSE)
    /\ Dispatched
    /\ lastOp' = Op("toggleArchive", file)
    /\ UNCHANGED <<variant, pc, showArchived, url, result, now>>

\* a deleteFile without its guard
DeleteAllowedAlways(file) == TRUE

\* if (file.archived)
DeleteAllowed(file) == file.archived

\* the collection deleteFile(file) leaves, its guard passed
FilesAfterDelete(fs, cur, file, newFile) ==
    LET updatedFiles == RemoveById(fs, file.id)
    IN  IF /\ variant = VStorage
           /\ cur # Null /\ cur.id = file.id
           /\ FirstNonArchived(updatedFiles) = Null
        THEN <<newFile>>
        ELSE updatedFiles

\* the current file deleteFile(file) leaves, its guard passed
CurrentAfterDelete(fs, cur, file, newFile) ==
    LET updatedFiles == RemoveById(fs, file.id)
    IN  IF cur # Null /\ cur.id = file.id
        THEN IF variant = VChrome THEN Null
             ELSE IF FirstNonArchived(updatedFiles) # Null
             THEN FirstNonArchived(updatedFiles)
             ELSE newFile
        ELSE cur

deleteFile(file) ==
    /\ Interactive
    /\ IF DeleteAllowed(file)
       THEN LET cur == CurrentAfterDelete(files, currentFile, file, NewFile)
            IN  /\ files' = FilesAfterDelete(files, currentFile, file, NewFile)
                /\ currentFile' = cur
                /\ url' = IF /\ variant = VStorage
                             /\ currentFile # Null /\ currentFile.id = file.id
                          THEN PushedUrl(cur) ELSE url
                /\ FilesChanged(FilesAfterDelete(files, currentFile, file, NewFile), FALSE)
       ELSE /\ UNCHANGED <<files, currentFile, url>>
            /\ FilesUntouched
    /\ Dispatched
    /\ lastOp' = Op("deleteFile", file)
    /\ UNCHANGED <<variant, pc, showArchived, result, now>>

\* the current file openFile(file) leaves: toggleArchive's setCurrentFile, if
\* any, is overwritten by setCurrentFile(file) with the handler's argument
CurrentAfterOpen(cur, file) == file

openFile(file) ==
    /\ Interactive
    /\ IF file.archived
       THEN /\ files' = FilesAfterToggle(files, file)
            /\ FilesChanged(FilesAfterToggle(files, file), FALSE)
       ELSE /\ UNCHANGED files
            /\ FilesUntouched
    /\ currentFile' = CurrentAfterOpen(currentFile, file)
    /\ url' = PushedUrl(file)
    /\ Dispatched
    /\ lastOp' = Op("openFile", file)
    /\ UNCHANGED <<variant, pc, showArchived, result, now>>

\* setShowArchived(!showArchived): written at once, not debounced
setShowArchived ==
    /\ Interactive
    /\ showArchived' = ~showArchived
    /\ store' = Put(store, "showArchived", ~showArchived)
    /\ Dispatched
    /\ lastOp' = Op("setShowArchived", Null)
    /\ UNCHANGED <<variant, pc, files, currentFile, url, result, debouncedFiles,
                   timerPending, now, burst, burstWrites>>

\* time passes: Date.now() is non-decreasing
Tick ==
    /\ now < InitClock + MaxTicks
    /\ now' = now + 1
    /\ UNCHANGED <<variant, pc, files, currentFile, showArchived, url, store,
                   result, debouncedFiles, timerPending, lastOp, burst, burstWrites,
                   ops>>

Next ==
    \/ Mount
    \/ FilesRead
    \/ HydrateStorage
    \/ HydrateChrome
    \/ ReadFails
    \/ TimerFire
    \/ createNewFile
    \/ \E content \in Contents : updateCurrentFile(content)
    \/ \E i \in 1..Len(files) : toggleArchive(files[i])
    \/ \E i \in 1..Len(files) : deleteFile(files[i])
    \/ \E i \in 1..Len(files) : openFile(files[i])
    \/ setShowArchived
    \/ Tick

Spec == Init /\ [][Next]_vars

\* Once no new change of files arrives, the armed debounce timer fires.
FairSpec == Spec /\ WF_vars(TimerFire)

----------------------------------------------------------------------------
(* Claims *)

\* C1: deleteFile(f) applied to a file f whose archived flag is false changes
\* neither files nor the current file nor showArchived; applied to a file whose
\* archived flag is true it removes f's entry from files.
C1_DeleteOnlyArchived ==
    [][\A i \in 1..Len(files) :
          deleteFile(files[i]) =>
              IF files[i].archived
              THEN files[i] \notin Entries(files')
              ELSE UNCHANGED <<files, currentFile, showArchived>>]_vars

\* a deleteFile of an active file has been dispatched and the file is still there
C1_Witness ==
    /\ lastOp.op = "deleteFile"
    /\ ~lastOp.arg.archived
    /\ lastOp.arg \in Entries(files)

\* C2: once hydration has completed, a non-empty files has a current file whose
\* id is the id of a file in files.
C2_CurrentWheneverNonEmpty ==
    (pc = "hydrated" /\ files # <<>>) =>
        (currentFile # Null /\ currentFile.id \in Ids(files))

\* C3: no two files in files have the same id.
C3_UniqueIds ==
    \A i, j \in 1..Len(files) : files[i].id = files[j].id => i = j

\* C4: no step stores the empty list under key "files" (seen on the provider as
\* a step that changes the stored value to the empty list).
C4_NeverPersistedEmpty ==
    [][(Has(store', "files") /\ store' # store
            /\ (Has(store, "files") => store'["files"] # store["files"]))
          => store'["files"] # <<>>]_vars

\* the stored collection equals the in-memory one
Mirrored == Has(store, "files") /\ store["files"] = files

\* C5 (debounced variant): during a run of content edits, each made while the
\* write scheduled by the previous one is still pending, nothing is written;
\* once the timer has fired exactly one write has been made since the run
\* began, and it carries the collection as the last edit left it.
C5_OneWritePerBurst ==
    (variant = VStorage /\ burst >= 1) =>
        IF timerPending THEN burstWrites = 0
        ELSE burstWrites = 1 /\ Mirrored /\ debouncedFiles = files

\* a run of at least two edits has been written
C5_Witness ==
    /\ variant = VStorage
    /\ burst >= 2
    /\ ~timerPending
    /\ burstWrites = 1
    /\ lastOp.op = "updateCurrentFile"
    /\ currentFile # Null
    /\ currentFile.content = lastOp.arg.content
    /\ currentFile \in Entries(store["files"])

\* C6: after hydration, whenever no debounced write is pending the stored
\* collection equals files, and (the timer being fair) every state is followed
\* by one in which the stored collection equals files.
C6_EventuallyMirrored ==
    /\ []((pc = "hydrated" /\ ~timerPending) => Mirrored)
    /\ (pc = "hydrated") ~> Mirrored

\* after hydration an edit has been made and its write has landed
C6_Witness ==
    /\ pc = "hydrated"
    /\ ops >= 2
    /\ files # <<>>
    /\ files # SavedFiles(result)
    /\ ~timerPending
    /\ Mirrored

\* the current file the fallback chain of the bootstrap asks for
C7_Chain(savedFiles, fileId) ==
    IF fileId # "" /\ FindById(savedFiles, fileId) # Null
    THEN currentFile = FindById(savedFiles, fileId)
    ELSE IF savedFiles = <<>>
    THEN /\ Len(files) = 1
         /\ currentFile = files[1]
         /\ currentFile.content = ""
    ELSE IF FirstNonArchived(savedFiles) # Null
    THEN currentFile = FirstNonArchived(savedFiles)
    ELSE currentFile = savedFiles[1]

\* C7: right after hydration the current file is the one chosen by the chain
\* (1) fileId matches a loaded file, (2) loaded collection empty: a fresh blank
\* file, (3) first non-archived file, (4) first file; first match wins.
C7_BootstrapChain ==
    lastOp.op = "hydrate" => C7_Chain(SavedFiles(result), lastOp.arg.fileId)

\* C8: when the stored collection is empty or absent at bootstrap, right after
\* hydration files holds exactly one file, blank and not archived, and it is
\* the current file.
C8_EmptyBootstrap ==
    (lastOp.op = "hydrate" /\ SavedFiles(result) = <<>>) =>
        /\ Len(files) = 1
        /\ files[1].content = ""
        /\ ~files[1].archived
        /\ currentFile = files[1]

\* C9 (the variant with a delete fallback): deleteFile of the current file when
\* all of the two or more files are archived leaves the other files in the
\* collection and makes the first of them current.
C9_AllArchivedFallback ==
    [][\A i \in 1..Len(files) :
          (/\ variant = VStorage
           /\ deleteFile(files[i])
           /\ Len(files) >= 2
           /\ \A j \in 1..Len(files) : files[j].archived
           /\ currentFile # Null
           /\ currentFile.id = files[i].id)
          => /\ files' = RemoveById(files, files[i].id)
             /\ Len(files') >= 1 => currentFile' = files'[1]]_vars

\* C10: openFile(f) on an archived f leaves f's entry in files with archived =
\* false and a current file with f's id and archived = false; on a file that is
\* not archived it leaves files alone and makes f current.
C10_OpenRevives ==
    [][\A i \in 1..Len(files) :
          openFile(files[i]) =>
              /\ currentFile' # Null
              /\ currentFile'.id = files[i].id
              /\ ~currentFile'.archived
              /\ \A j \in 1..Len(files') :
                    files'[j].id = files[i].id => ~files'[j].archived
              /\ ~files[i].archived => files' = files]_vars

\* C11: updateContent with a current file leaves the length and order of
\* files, every file's id and archived flag, every file whose id is not the
\* current id, and the current id as they were; only the content of the file
\* with the current id is replaced.
C11_UpdateOnlyContent ==
    [][\A c \in Contents :
          (updateCurrentFile(c) /\ currentFile # Null) =>
              /\ Len(files') = Len(files)
              /\ \A j \in 1..Len(files) :
                    /\ files'[j].id = files[j].id
                    /\ files'[j].archived = files[j].archived
                    /\ files[j].id # currentFile.id => files'[j] = files[j]
                    /\ files[j].id = currentFile.id => files'[j].content = c
              /\ currentFile'.id = currentFile.id]_vars

\* files after toggleArchive on the entry at index i and again on the entry
\* that the first toggle left at index i
C12_TwiceFiles(i) ==
    LET once == FilesAfterToggle(files, files[i])
    IN  FilesAfterToggle(once, once[i])

\* the current file after the same two toggles
C12_TwiceCurrent(i) ==
    LET once == FilesAfterToggle(files, files[i])
    IN  CurrentAfterToggle(CurrentAfterToggle(currentFile, files[i]), once[i])

\* C12: toggleArchive applied twice to the same file gives back the original
\* collection and the original archived value; the current file id is the same
\* before, between and after the toggles, and a toggled current file carries
\* the new flag.
C12_ToggleInvolution ==
    \A i \in 1..Len(files) :
        LET between == CurrentAfterToggle(currentFile, files[i])
        IN  /\ C12_TwiceFiles(i) = files
            /\ (currentFile = Null) = (between = Null)
            /\ (currentFile = Null) = (C12_TwiceCurrent(i) = Null)
            /\ currentFile # Null =>
                  /\ between.id = currentFile.id
                  /\ C12_TwiceCurrent(i).id = currentFile.id
                  /\ currentFile.id = files[i].id =>
                        between.archived = ~files[i].archived

\* C13: after createFile and after openFile the fileId parameter of the address
\* bar equals the id of the new current file.
C13_UrlFollowsSelection ==
    [][(createNewFile \/ \E i \in 1..Len(files) : openFile(files[i])) =>
          (currentFile' # Null /\ url' = currentFile'.id)]_vars

\* C14: every file that is in files when hydration completes (a file created
\* or edited between process start and that moment) is still in files after
\* hydration has replaced the state.
C14_NothingLostToHydration ==
    [][(HydrateStorage \/ HydrateChrome) => Entries(files) \subseteq Entries(files')]_vars


\* what a get of "files" returns from a store to which fs was written
C15_ReadBack(fs) == Get(Put(store, "files", fs), {"files"})

\* C15: a non-empty files written under "files" and hydrated from that stored
\* value comes back as the same sequence of the same records, whatever the
\* fileId parameter is; and the hydration that has just run on a non-empty
\* stored collection left files equal to it.
C15_RoundTrip ==
    /\ files # <<>> =>
          /\ Has(C15_ReadBack(files), "files")
          /\ \A fileId \in URLParams \cup Ids(files) :
                InitialFiles(SavedFiles(C15_ReadBack(files)), fileId, NewFile) = files
    /\ (lastOp.op = "hydrate" /\ SavedFiles(result) # <<>>) =>
          files = SavedFiles(result)

C15_Witness ==
    /\ lastOp.op = "hydrate"
    /\ Len(SavedFiles(result)) = MaxSaved
    /\ \E i \in 1..Len(files) : files[i].archived
    /\ files = SavedFiles(result)
    /\ lastOp.arg.fileId # NoParam
    /\ lastOp.arg.fileId \notin Ids(files)


\* C16: after hydration createFile adds exactly one file, with empty content
\* and archived = false, at the end of files, leaves the files that were there
\* and their order as they were, and makes the added file current.
C16_CreateAppends ==
    [][(createNewFile /\ pc = "hydrated") =>
          /\ Len(files') = Len(files) + 1
          /\ SubSeq(files', 1, Len(files)) = files
          /\ files'[Len(files')].content = ""
          /\ ~files'[Len(files')].archived
          /\ currentFile' = files'[Len(files')]]_vars

\* two createFile in a row after hydration of a stored collection: F1, F2 are
\* the last two entries in that order and F2 is current
C16_Witness ==
    /\ pc = "hydrated"
    /\ lastOp.op = "createNewFile"
    /\ SavedFiles(result) # <<>>
    /\ Len(files) = Len(SavedFiles(result)) + 2
    /\ SubSeq(files, 1, Len(files) - 2) = SavedFiles(result)
    /\ currentFile = files[Len(files)]


\* the bootstrap read has come back with no data for "files"
C17_NoData == (HydrateStorage \/ HydrateChrome) /\ ~Has(result, "files")

\* C17: with no fileId parameter, a bootstrap read that fails and one that
\* returns undefined both end with files holding exactly one blank non-archived
\* file that is current; files empty with no current file is not where
\* bootstrap ends.
C17_FailedReadIsNoData ==
    [][((ReadFails \/ C17_NoData) /\ url = NoParam) =>
          /\ Len(files') = 1
          /\ files'[1].content = ""
          /\ ~files'[1].archived
          /\ currentFile' = files'[1]]_vars


\* the entries of fs whose id is one of ids, in the order of fs
C18_Restrict(fs, ids) == SelectSeq(fs, LAMBDA g : g.id \in ids)

\* C18: after hydration, deleteFile(f) of an archived f removes the entry with
\* f's id and keeps every other file of files, with its id, content and
\* archived flag, in the same relative order; a step of any other operation
\* removes no file.
C18_OnlyDeleteRemoves ==
    [][pc = "hydrated" =>
          /\ \A i \in 1..Len(files) :
                (deleteFile(files[i]) /\ files[i].archived) =>
                    /\ files[i].id \notin Ids(C18_Restrict(files', Ids(files)))
                    /\ C18_Restrict(files', Ids(files) \ {files[i].id})
                          = RemoveById(files, files[i].id)
          /\ lastOp'.op # "deleteFile" =>
                /\ Len(files') >= Len(files)
                /\ \A j \in 1..Len(files) : files'[j].id = files[j].id]_vars


\* C19: a deleteFile that succeeds on the current file leaves a current file
\* that is not null and is an entry of files: the first non-archived of the
\* remaining files if there is one, otherwise a blank non-archived file; a
\* deleteFile that succeeds on another file leaves the current file as it was.
C19_RepairAfterDelete ==
    [][\A i \in 1..Len(files) :
          (deleteFile(files[i]) /\ files[i].archived) =>
              IF currentFile # Null /\ currentFile.id = files[i].id
              THEN LET rest == RemoveById(files, files[i].id)
                   IN  /\ currentFile' # Null
                       /\ currentFile' \in Entries(files')
                       /\ IF FirstNonArchived(rest) # Null
                          THEN currentFile' = FirstNonArchived(rest)
                          ELSE currentFile'.content = "" /\ ~currentFile'.archived
              ELSE currentFile' = currentFile]_vars


\* the loaded file the fileId parameter names, Null when there is none
C20_DeepLinked == IF url # NoParam THEN FindById(SavedFiles(result), url) ELSE Null

\* C20: when the fileId parameter names a loaded file that is archived,
\* hydration makes that file current with its archived flag still true, in
\* files and in the current file; hydration changes no loaded file's archived
\* flag.
C20_SelectsWithoutReviving ==
    [][(HydrateStorage \/ HydrateChrome) =>
          /\ (C20_DeepLinked # Null /\ C20_DeepLinked.archived) =>
                /\ currentFile' = C20_DeepLinked
                /\ currentFile'.archived
                /\ FindById(files', url) = C20_DeepLinked
          /\ SavedFiles(result) # <<>> =>
                /\ Len(files') = Len(SavedFiles(result))
                /\ \A j \in 1..Len(files') :
                      /\ files'[j].id = SavedFiles(result)[j].id
                      /\ files'[j].archived = SavedFiles(result)[j].archived]_vars

C20_Witness ==
    /\ lastOp.op = "hydrate"
    /\ lastOp.arg.fileId # NoParam
    /\ currentFile # Null
    /\ currentFile.id = lastOp.arg.fileId
    /\ currentFile.archived
    /\ currentFile \in Entries(files)
    /\ files = SavedFiles(result)
    /\ \E j \in 1..Len(files) : ~files[j].archived


\* C21: in every state after hydration in which the current file is not null,
\* the current-file record has the content and the archived flag of the entry
\* of files with the same id.
C21_CurrentMirrorsCollection ==
    (pc = "hydrated" /\ currentFile # Null) =>
        \A j \in 1..Len(files) :
            files[j].id = currentFile.id =>
                /\ files[j].content = currentFile.content
                /\ files[j].archived = currentFile.archived

====
